---- MODULE Spec2Model ----
(***************************************************************************)
(* pintless: Quantity (pintless/quantity.py) over the Unit algebra of      *)
(* pintless/unit.py.  Magnitudes and scales are exact rationals <<n, d>>.  *)
(***************************************************************************)
EXTENDS Integers, Sequences, FiniteSets, TLC

VARIABLES heap, ret, last

vars == <<heap, ret, last>>

\* ---------------------------------------------------------------- bounds
\* Largest number of Quantity objects the client constructs.
MaxObjs == 2
\* Longest numerator / denominator term list of the units drawn in InitUnit.
MaxTerms == 2

\* ------------------------------------------------------------- rationals
Abs(x) == IF x < 0 THEN -x ELSE x

RECURSIVE GCD(_, _)
GCD(a, b) == IF b = 0 THEN a ELSE GCD(b, a % b)

\* The rational n/d (d # 0) in lowest terms with a positive denominator.
Rat(n, d) ==
    LET g == GCD(Abs(n), Abs(d))
        s == IF d < 0 THEN -1 ELSE 1
    IN  <<(s * n) \div g, (s * d) \div g>>

RInt(n) == <<n, 1>>
\* Cross-cancelled first, so that no intermediate product is larger than needed.
RMul(x, y) ==
    LET a == Rat(x[1], y[2])
        b == Rat(y[1], x[2])
    IN  Rat(a[1] * b[1], a[2] * b[2])
RDiv(x, y) == Rat(x[1] * y[2], x[2] * y[1])
RAdd(x, y) == Rat(x[1] * y[2] + y[1] * x[2], x[2] * y[2])
RNeg(x) == <<-x[1], x[2]>>
RAbs(x) == <<Abs(x[1]), x[2]>>
RLt(x, y) == x[1] * y[2] < y[1] * x[2]
RIsZero(x) == x[1] = 0

\* ------------------------------------------------------ Unit (unit.py)
Categories == {"[length]", "[time]"}

BaseUnit(name, category, scale) ==
    [name |-> name, dimensional_category |-> category, scale |-> scale]

b_meter == BaseUnit("meter", "[length]", 1)
b_decameter == BaseUnit("decameter", "[length]", 10)
b_kilometer == BaseUnit("kilometer", "[length]", 1000)
b_second == BaseUnit("second", "[time]", 1)
b_hour == BaseUnit("hour", "[time]", 3600)

Unit(num, den, registry) ==
    [numerator_units |-> num, denominator_units |-> den, registry |-> registry]

\* Number of terms of category c in the term list s.
RECURSIVE CountCat(_, _)
CountCat(s, c) ==
    IF s = <<>> THEN 0
    ELSE (IF Head(s).dimensional_category = c THEN 1 ELSE 0) + CountCat(Tail(s), c)

\* Number of occurrences of the base unit b in the term list s.
RECURSIVE CountTerm(_, _)
CountTerm(s, b) ==
    IF s = <<>> THEN 0
    ELSE (IF Head(s) = b THEN 1 ELSE 0) + CountTerm(Tail(s), b)

RECURSIVE ScaleProduct(_)
ScaleProduct(s) == IF s = <<>> THEN 1 ELSE Head(s).scale * ScaleProduct(Tail(s))

\* The dimensional signature: per category, numerator count minus denominator
\* count ("[dimensionless]/[dimensionless]" is the all-zero signature).
unit_type(u) ==
    [c \in Categories |->
        CountCat(u.numerator_units, c) - CountCat(u.denominator_units, c)]

Terms(u) == {u.numerator_units[k] : k \in DOMAIN u.numerator_units}
            \cup {u.denominator_units[k] : k \in DOMAIN u.denominator_units}

\* Unit.__eq__: the same terms up to order.
Unit_eq(a, b) ==
    \A t \in Terms(a) \cup Terms(b) :
        CountTerm(a.numerator_units, t) - CountTerm(a.denominator_units, t)
        = CountTerm(b.numerator_units, t) - CountTerm(b.denominator_units, t)

\* Unit.__mul__ and Unit.__truediv__: concatenation, no cancelling.
Unit_mul(a, b) ==
    Unit(a.numerator_units \o b.numerator_units,
         a.denominator_units \o b.denominator_units, a.registry)

Unit_truediv(a, b) ==
    Unit(a.numerator_units \o b.denominator_units,
         a.denominator_units \o b.numerator_units, a.registry)

dimensionless_unit(u) == Unit(<<>>, <<>>, u.registry)

\* Index of the first term of s in category c, 0 when there is none.
RECURSIVE FirstOfCat(_, _, _)
FirstOfCat(s, c, k) ==
    IF k > Len(s) THEN 0
    ELSE IF s[k].dimensional_category = c THEN k
    ELSE FirstOfCat(s, c, k + 1)

RemoveAt(s, k) == SubSeq(s, 1, k - 1) \o SubSeq(s, k + 1, Len(s))

\* Numerator terms are visited in order; each is cancelled against the first
\* denominator term of its category, the scale ratio going into the factor.
RECURSIVE SimplifyFrom(_, _, _, _, _)
SimplifyFrom(num, kept, den, factor, registry) ==
    IF num = <<>> THEN [factor |-> factor, unit |-> Unit(kept, den, registry)]
    ELSE LET t == Head(num)
             j == FirstOfCat(den, t.dimensional_category, 1)
         IN  IF j = 0
             THEN SimplifyFrom(Tail(num), Append(kept, t), den, factor, registry)
             ELSE SimplifyFrom(Tail(num), kept, RemoveAt(den, j),
                               RMul(factor, Rat(t.scale, den[j].scale)), registry)

simplify(u) ==
    SimplifyFrom(u.numerator_units, <<>>, u.denominator_units, RInt(1), u.registry)

\* Results of calls that may raise: err is "" on success.
Ok(v) == [err |-> "", val |-> v]
Raise(kind) == [err |-> kind, val |-> RInt(0)]

UnitScale(u) ==
    Rat(ScaleProduct(u.numerator_units), ScaleProduct(u.denominator_units))

conversion_factor(from, to) ==
    IF unit_type(from) # unit_type(to) THEN Raise("TypeError")
    ELSE Ok(RDiv(UnitScale(from), UnitScale(to)))

\* ------------------------------------------------- Registry (external)
u_meter == Unit(<<b_meter>>, <<>>, TRUE)
u_kilometer == Unit(<<b_kilometer>>, <<>>, TRUE)
u_second == Unit(<<b_second>>, <<>>, TRUE)
u_hour == Unit(<<b_hour>>, <<>>, TRUE)
u_Hz == Unit(<<>>, <<b_second>>, TRUE)
u_dimensionless == Unit(<<>>, <<>>, TRUE)

get_unit(name) ==
    CASE name = "meter" -> [err |-> "", unit |-> u_meter]
      [] name = "kilometer" -> [err |-> "", unit |-> u_kilometer]
      [] name = "second" -> [err |-> "", unit |-> u_second]
      [] name = "Hz" -> [err |-> "", unit |-> u_Hz]
      [] name = "" -> [err |-> "", unit |-> u_dimensionless]
      [] OTHER -> [err |-> "LookupError", unit |-> u_dimensionless]

\* --------------------------------------------- Quantity (quantity.py)
Unset == Unit(<<>>, <<>>, FALSE)
UnsetType == [c \in Categories |-> -1]

_set_unit(q, unit) ==
    [q EXCEPT !.unit = unit, !.units = unit, !.dimensionality = unit_type(unit)]

\* Quantity.__init__
Quantity(magnitude, unit) ==
    _set_unit([magnitude |-> magnitude, unit |-> Unset, units |-> Unset,
               dimensionality |-> UnsetType], unit)

NoQuantity == Quantity(RInt(0), Unset)

\* Right operands and targets: a Quantity of the heap, a Unit, a bare number, a
\* string, or nothing (unary operations).
Arg(kind, id, unit, num, str) ==
    [kind |-> kind, id |-> id, unit |-> unit, num |-> num, str |-> str]
QArg(i) == Arg("Quantity", i, Unset, RInt(0), "")
UArg(un) == Arg("Unit", 0, un, RInt(0), "")
NArg(n) == Arg("Number", 0, Unset, n, "")
SArg(s) == Arg("str", 0, Unset, RInt(0), s)
NoArg == Arg("none", 0, Unset, RInt(0), "")

\* What a call gave back.  ref = 0: an object allocated by the call; ref = i > 0:
\* the object heap[i] itself.
Ret(kind, err, q, b, ref) == [kind |-> kind, err |-> err, q |-> q, b |-> b, ref |-> ref]
RetQ(q) == Ret("Quantity", "", q, FALSE, 0)
RetBool(b) == Ret("bool", "", NoQuantity, b, 0)
RetNone == Ret("None", "", NoQuantity, FALSE, 0)
RetErr(kind) == Ret("error", kind, NoQuantity, FALSE, 0)
\* The (factor, unit) pair of Unit.simplify, held in q.magnitude and q.unit.
RetPair(s) == Ret("tuple", "", Quantity(s.factor, s.unit), FALSE, 0)

Outcome(h, r) == [heap |-> h, ret |-> r]

\* The isinstance(target_unit, str) prologue shared by to and ito.
ResolveTarget(q, target) ==
    IF target.kind = "str"
    THEN IF ~q.unit.registry
         THEN [err |-> "ValueError", unit |-> Unset]
         ELSE get_unit(target.str)
    ELSE [err |-> "", unit |-> target.unit]

\* Mutant of to: an incompatible target is treated as a conversion by 1.
to_factor_one_on_mismatch(h, self, target) ==
    LET q == h[self]
        t == ResolveTarget(q, target)
        cf == conversion_factor(q.unit, t.unit)
    IN  IF t.err # "" THEN Outcome(h, RetErr(t.err))
        ELSE IF cf.err # "" THEN Outcome(h, RetQ(Quantity(q.magnitude, t.unit)))
        ELSE Outcome(h, RetQ(Quantity(RMul(q.magnitude, cf.val), t.unit)))

\* Mutant of to: converts the receiver in place and returns it.
to_in_place(h, self, target) ==
    LET q == h[self]
        t == ResolveTarget(q, target)
        cf == conversion_factor(q.unit, t.unit)
    IN  IF t.err # "" THEN Outcome(h, RetErr(t.err))
        ELSE IF cf.err # "" THEN Outcome(h, RetErr(cf.err))
        ELSE LET converted == Quantity(RMul(q.magnitude, cf.val), t.unit)
             IN  Outcome([h EXCEPT ![self] = converted],
                         Ret("Quantity", "", converted, FALSE, self))

to(h, self, target) ==
    LET q == h[self]
        t == ResolveTarget(q, target)
        cf == conversion_factor(q.unit, t.unit)
    IN  IF t.err # "" THEN Outcome(h, RetErr(t.err))
        ELSE IF cf.err # "" THEN Outcome(h, RetErr(cf.err))
        ELSE Outcome(h, RetQ(Quantity(RMul(q.magnitude, cf.val), t.unit)))

\* Mutant of ito: the unit is written before the conversion factor is computed.
ito_unit_before_factor(h, self, target) ==
    LET q == h[self]
        t == ResolveTarget(q, target)
        cf == conversion_factor(q.unit, t.unit)
    IN  IF t.err # "" THEN Outcome(h, RetErr(t.err))
        ELSE IF cf.err # ""
        THEN Outcome([h EXCEPT ![self] = _set_unit(q, t.unit)], RetErr(cf.err))
        ELSE LET scaled == [q EXCEPT !.magnitude = RMul(q.magnitude, cf.val)]
             IN  Outcome([h EXCEPT ![self] = _set_unit(scaled, t.unit)], RetNone)

\* Mutant of ito: the magnitude is scaled and the unit is left as it was.
ito_keeps_unit(h, self, target) ==
    LET q == h[self]
        t == ResolveTarget(q, target)
        cf == conversion_factor(q.unit, t.unit)
    IN  IF t.err # "" THEN Outcome(h, RetErr(t.err))
        ELSE IF cf.err # "" THEN Outcome(h, RetErr(cf.err))
        ELSE Outcome([h EXCEPT ![self].magnitude = RMul(q.magnitude, cf.val)], RetNone)

\* Mutant of ito: self.unit is assigned directly, not through _set_unit.
ito_assigns_unit_directly(h, self, target) ==
    LET q == h[self]
        t == ResolveTarget(q, target)
        cf == conversion_factor(q.unit, t.unit)
    IN  IF t.err # "" THEN Outcome(h, RetErr(t.err))
        ELSE IF cf.err # "" THEN Outcome(h, RetErr(cf.err))
        ELSE Outcome([h EXCEPT ![self].magnitude = RMul(q.magnitude, cf.val),
                               ![self].unit = t.unit], RetNone)

ito(h, self, target) ==
    LET q == h[self]
        t == ResolveTarget(q, target)
        cf == conversion_factor(q.unit, t.unit)
    IN  IF t.err # "" THEN Outcome(h, RetErr(t.err))
        ELSE IF cf.err # "" THEN Outcome(h, RetErr(cf.err))
        ELSE LET scaled == [q EXCEPT !.magnitude = RMul(q.magnitude, cf.val)]
             IN  Outcome([h EXCEPT ![self] = _set_unit(scaled, t.unit)], RetNone)

__bool__(h, self) == Outcome(h, RetBool(~RIsZero(h[self].magnitude)))

__eq__(h, self, o) ==
    Outcome(h, RetBool(/\ o.kind = "Quantity"
                       /\ h[self].magnitude = h[o.id].magnitude
                       /\ Unit_eq(h[self].unit, h[o.id].unit)))

\* Mutant of __lt__: operands of different unit_type compare as not-less.
lt_false_on_mismatch(h, self, o) ==
    IF o.kind # "Quantity" THEN Outcome(h, RetBool(FALSE))
    ELSE LET cf == conversion_factor(h[self].unit, h[o.id].unit)
         IN  IF cf.err # "" THEN Outcome(h, RetBool(FALSE))
             ELSE Outcome(h, RetBool(RLt(h[self].magnitude,
                                         RMul(h[o.id].magnitude, cf.val))))

__lt__(h, self, o) ==
    IF o.kind # "Quantity" THEN Outcome(h, RetBool(FALSE))
    ELSE LET cf == conversion_factor(h[self].unit, h[o.id].unit)
         IN  IF cf.err # "" THEN Outcome(h, RetErr(cf.err))
             ELSE Outcome(h, RetBool(RLt(h[self].magnitude,
                                         RMul(h[o.id].magnitude, cf.val))))

\* assertions: whether the interpreter runs assert statements (python -O
\* strips them, and the call then reaches conversion_factor unchecked).
__add__(h, self, o, assertions) ==
    IF o.kind # "Quantity" THEN Outcome(h, RetErr("ValueError"))
    ELSE IF assertions /\ unit_type(h[self].unit) # unit_type(h[o.id].unit)
    THEN Outcome(h, RetErr("AssertionError"))
    ELSE LET cf == conversion_factor(h[o.id].unit, h[self].unit)
         IN  IF cf.err # "" THEN Outcome(h, RetErr(cf.err))
             ELSE Outcome(h, RetQ(Quantity(
                      RAdd(h[self].magnitude, RMul(h[o.id].magnitude, cf.val)),
                      h[self].unit)))

__neg__(h, self) == Outcome(h, RetQ(Quantity(RNeg(h[self].magnitude), h[self].unit)))

__pos__(h, self) == Outcome(h, RetQ(Quantity(h[self].magnitude, h[self].unit)))

__abs__(h, self) == Outcome(h, RetQ(Quantity(RAbs(h[self].magnitude), h[self].unit)))

\* "if not isinstance(__o, Quantity): __o = Quantity(__o, self.unit.dimensionless_unit)"
AsQuantity(h, self, o) ==
    IF o.kind = "Quantity" THEN h[o.id]
    ELSE Quantity(o.num, dimensionless_unit(h[self].unit))

\* Mutant of __mul__: the product unit is not simplified.
mul_without_simplify(h, self, o) ==
    IF o.kind = "Unit"
    THEN Outcome(h, RetQ(Quantity(h[self].magnitude, Unit_mul(h[self].unit, o.unit))))
    ELSE LET other == AsQuantity(h, self, o)
         IN  Outcome(h, RetQ(Quantity(RMul(h[self].magnitude, other.magnitude),
                                      Unit_mul(h[self].unit, other.unit))))

__mul__(h, self, o) ==
    IF o.kind = "Unit"
    THEN Outcome(h, RetQ(Quantity(h[self].magnitude, Unit_mul(h[self].unit, o.unit))))
    ELSE LET other == AsQuantity(h, self, o)
             multiplied_magnitude == RMul(h[self].magnitude, other.magnitude)
             s == simplify(Unit_mul(h[self].unit, other.unit))
         IN  Outcome(h, RetQ(Quantity(RMul(multiplied_magnitude, s.factor), s.unit)))

__truediv__(h, self, o) ==
    LET other == AsQuantity(h, self, o)
    IN  IF RIsZero(other.magnitude) THEN Outcome(h, RetErr("ZeroDivisionError"))
        ELSE LET divided_magnitude == RDiv(h[self].magnitude, other.magnitude)
                 s == simplify(Unit_truediv(h[self].unit, other.unit))
             IN  Outcome(h, RetQ(Quantity(RMul(divided_magnitude, s.factor), s.unit)))

\* ------------------------------------------------------------ inputs
u_second_unlinked == Unit(<<b_second>>, <<>>, FALSE)

\* The quantities client code constructs.
QInit ==
    { Quantity(RInt(10), u_kilometer),
      Quantity(RInt(20), u_meter),
      Quantity(RInt(0), u_second_unlinked) }

TargetUnits == {u_hour}
TargetNames == {"kilometer", "furlong"}
Numbers == {RInt(0), RInt(500)}

Targets == {UArg(un) : un \in TargetUnits} \cup {SArg(n) : n \in TargetNames}
QArgs(h) == {QArg(i) : i \in DOMAIN h}
\* Right operands of the binary operators.
Operands(h) == QArgs(h) \cup {NArg(n) : n \in Numbers}
\* Right operands of ==, < and +, which take no number as a magnitude.
Comparands(h) == QArgs(h) \cup {NArg(RInt(500))}

\* Term lists of at most n base units, and the compound units over them.
BoundedBase == {b_meter, b_decameter, b_second}
TermLists(n) == UNION {[1..k -> BoundedBase] : k \in 0..n}
BoundedUnits == {Unit(num, den, TRUE) : num \in TermLists(MaxTerms), den \in TermLists(MaxTerms)}
u_meter_per_second == Unit(<<b_meter>>, <<b_second>>, TRUE)

\* ----------------------------------------------------------- actions
Call(op, self, other, out) ==
    /\ heap' = out.heap
    /\ ret' = out.ret
    /\ last' = [op |-> op, self |-> self, other |-> other]

Construct ==
    /\ Len(heap) < MaxObjs
    /\ \E q \in QInit :
        /\ heap' = Append(heap, q)
        /\ ret' = RetNone
        /\ last' = [op |-> "__init__", self |-> Len(heap) + 1, other |-> NoArg]
    
To == \E self \in DOMAIN heap, t \in Targets : Call("to", self, t, to(heap, self, t))

Ito == \E self \in DOMAIN heap, t \in Targets : Call("ito", self, t, ito(heap, self, t))

Bool == \E self \in DOMAIN heap : Call("__bool__", self, NoArg, __bool__(heap, self))

Eq ==
    \E self \in DOMAIN heap, o \in Comparands(heap) :
        Call("__eq__", self, o, __eq__(heap, self, o))

Lt ==
    \E self \in DOMAIN heap, o \in Comparands(heap) :
        Call("__lt__", self, o, __lt__(heap, self, o))

Add ==
    \E self \in DOMAIN heap, o \in Comparands(heap), assertions \in BOOLEAN :
        Call("__add__", self, o, __add__(heap, self, o, assertions))

Neg == \E self \in DOMAIN heap : Call("__neg__", self, NoArg, __neg__(heap, self))

Pos == \E self \in DOMAIN heap : Call("__pos__", self, NoArg, __pos__(heap, self))

AbsOp == \E self \in DOMAIN heap : Call("__abs__", self, NoArg, __abs__(heap, self))

Mul ==
    \E self \in DOMAIN heap,
       o \in Operands(heap) \cup {UArg(un) : un \in TargetUnits} :
        Call("__mul__", self, o, __mul__(heap, self, o))

TrueDiv ==
    \E self \in DOMAIN heap, o \in Operands(heap) :
        Call("__truediv__", self, o, __truediv__(heap, self, o))

Init ==
    /\ \E q \in QInit : heap = <<q>>
    /\ ret = RetNone
    /\ last = [op |-> "__init__", self |-> 1, other |-> NoArg]

Next ==
    \/ Construct
    \/ To
    \/ Ito
    \/ Bool
    \/ Eq
    \/ Lt
    \/ Add
    \/ Neg
    \/ Pos
    \/ AbsOp
    \/ Mul
    \/ TrueDiv

Spec == Init /\ [][Next]_vars

\* ----------------------------------------- the unit algebra on its own
\* A direct call of Unit.simplify on the unit of a Quantity.
Simplify ==
    \E self \in DOMAIN heap :
        /\ ret' = RetPair(simplify(heap[self].unit))
        /\ last' = [op |-> "simplify", self |-> self, other |-> NoArg]
        /\ UNCHANGED heap

InitUnit ==
    /\ \E cu \in BoundedUnits :
            heap = <<Quantity(RInt(10), cu), Quantity(RInt(20), u_meter_per_second)>>
    /\ ret = RetNone
    /\ last = [op |-> "__init__", self |-> 2, other |-> NoArg]

NextUnit ==
    \/ Simplify
    \/ Mul
    \/ TrueDiv

SpecUnit == InitUnit /\ [][NextUnit]_vars

\* ------------------------------------------------------------ claims
Self == heap[last.self]
Other == heap[last.other.id]
OtherIsQuantity == last.other.kind = "Quantity"
SameType(a, b) == unit_type(a.unit) = unit_type(b.unit)

RegistryUnits == {u_meter, u_kilometer, u_second, u_hour, u_Hz, u_dimensionless}

\* C1: conversion_factor between units of different unit_type raises the
\* type-mismatch error and gives no factor, and Quantity.to on such a target
\* ends in that same error and returns no Quantity.
C1_IncompatibleConversionRaises ==
    /\ \A i \in DOMAIN heap, un \in RegistryUnits :
        unit_type(heap[i].unit) # unit_type(un)
            => conversion_factor(heap[i].unit, un).err = "TypeError"
    /\ (last.op = "to" /\ ResolveTarget(Self, last.other).err = ""
                       /\ unit_type(Self.unit) # unit_type(ResolveTarget(Self, last.other).unit))
            => (ret.kind = "error" /\ ret.err = "TypeError")

C1_Witness ==
    /\ last.op = "to"
    /\ ResolveTarget(Self, last.other).err = ""
    /\ unit_type(Self.unit) # unit_type(ResolveTarget(Self, last.other).unit)
    /\ ret.kind = "error"

\* C2: a < b is true exactly when a.magnitude < b.magnitude *
\* conversion_factor(b.unit, a.unit), for a and b of one unit_type.
C2_LessThanConvertsOtherIntoSelf ==
    (last.op = "__lt__" /\ OtherIsQuantity /\ SameType(Self, Other))
        => /\ ret.kind = "bool"
           /\ ret.b = RLt(Self.magnitude,
                          RMul(Other.magnitude,
                               conversion_factor(Other.unit, Self.unit).val))

\* C3: 10 km divided by 20 meter is dimensionless with magnitude 500 and
\* compares equal to the bare number 500.
C3_QuotientEqualsBareNumber ==
    (/\ last.op = "__truediv__" /\ OtherIsQuantity
     /\ Self = Quantity(RInt(10), u_kilometer)
     /\ Other = Quantity(RInt(20), u_meter))
        => /\ ret.kind = "Quantity"
           /\ ret.q.unit.numerator_units = <<>>
           /\ ret.q.unit.denominator_units = <<>>
           /\ ret.q.magnitude = RInt(500)
           /\ __eq__(<<ret.q>>, 1, NArg(RInt(500))).ret.b

\* C4: add on Quantities of different unit_type fails with the type-mismatch
\* error of conversion_factor, add on a non-Quantity fails with the
\* invalid-operand error, and neither changes an operand.
C4_AddStep ==
    last'.op = "__add__" =>
        /\ heap' = heap
        /\ last'.other.kind # "Quantity"
            => (ret'.kind = "error" /\ ret'.err = "ValueError")
        /\ (last'.other.kind = "Quantity"
            /\ ~SameType(heap[last'.self], heap[last'.other.id]))
            => (ret'.kind = "error" /\ ret'.err = "TypeError")

C4_AddErrors == [][C4_AddStep]_vars

\* C5: a failing ito leaves magnitude and unit as they were; a successful one
\* replaces both (magnitude scaled by the conversion factor, unit = target).
C5_ItoStep ==
    last'.op = "ito" =>
        LET self == last'.self
            q == heap[self]
            t == ResolveTarget(q, last'.other)
            cf == conversion_factor(q.unit, t.unit)
            fails == t.err # "" \/ cf.err # ""
        IN  /\ fails <=> ret'.kind = "error"
            /\ fails => heap' = heap
            /\ ~fails =>
                /\ heap'[self].magnitude = RMul(q.magnitude, cf.val)
                /\ heap'[self].unit = t.unit
                /\ \A i \in DOMAIN heap : i # self => heap'[i] = heap[i]
                /\ DOMAIN heap' = DOMAIN heap

C5_ItoAtomic == [][C5_ItoStep]_vars

C5_Witness == last.op = "ito" /\ ret.kind = "error" /\ ret.err = "TypeError"

\* C6: every operation other than ito leaves every Quantity as it was, and a
\* successful arithmetic or conversion call returns a newly allocated Quantity.
NonMutating ==
    {"to", "__add__", "__neg__", "__pos__", "__abs__", "__mul__", "__truediv__",
     "__eq__", "__lt__", "__bool__"}
ReturnsQuantity ==
    {"to", "__add__", "__neg__", "__pos__", "__abs__", "__mul__", "__truediv__"}

C6_Step ==
    last'.op \in NonMutating =>
        /\ heap' = heap
        /\ (last'.op \in ReturnsQuantity /\ ret'.kind # "error")
            => (ret'.kind = "Quantity" /\ ret'.ref = 0)

C6_OnlyItoMutates == [][C6_Step]_vars

C6_Witness == last.op = "to" /\ ret.kind = "Quantity" /\ ret.q.unit # Self.unit

\* C7: a < b on Quantities of different unit_type raises the type-mismatch
\* error of conversion_factor and gives no boolean.
C7_LessThanIncompatibleRaises ==
    (last.op = "__lt__" /\ OtherIsQuantity /\ ~SameType(Self, Other))
        => /\ ret.kind = "error"
           /\ ret.err = conversion_factor(Self.unit, Other.unit).err
           /\ ret.err = "TypeError"

C7_Witness ==
    last.op = "__lt__" /\ OtherIsQuantity /\ ~SameType(Self, Other) /\ ret.kind = "error"

\* C8: simplify leaves no category on both sides of the unit, simplifying its
\* result again gives factor 1 and the same unit, and so the unit of every
\* Quantity*Quantity or Quantity/Quantity result is fully cancelled.
FullyCancelled(un) ==
    \A c \in Categories :
        CountCat(un.numerator_units, c) = 0 \/ CountCat(un.denominator_units, c) = 0

Fixpoint(un) == simplify(un) = [factor |-> RInt(1), unit |-> un]

C8_SimplifyIdempotent ==
    /\ last.op = "simplify" => (FullyCancelled(ret.q.unit) /\ Fixpoint(ret.q.unit))
    /\ (last.op \in {"__mul__", "__truediv__"} /\ last.other.kind # "Unit"
        /\ ret.kind = "Quantity")
            => (FullyCancelled(ret.q.unit) /\ Fixpoint(ret.q.unit))

C8_Witness ==
    /\ last.op = "__mul__" /\ OtherIsQuantity /\ ret.kind = "Quantity"
    /\ ~FullyCancelled(Unit_mul(Self.unit, Other.unit))
    /\ ret.q.unit.numerator_units # <<>>

\* C9: for units of one unit_type the two conversion factors multiply to 1;
\* q.to(v).to(q.unit) has q's magnitude and unit; q.ito(v) then q.ito(u)
\* brings q back to its magnitude and unit.
RoundTripUnits(q) == {un \in RegistryUnits \cup {heap[i].unit : i \in DOMAIN heap} :
                        unit_type(un) = unit_type(q.unit)}

C9_RoundTrip ==
    \A i \in DOMAIN heap : \A v \in RoundTripUnits(heap[i]) :
        LET q == heap[i]
            there == to(heap, i, UArg(v)).ret
            back == to(<<there.q>>, 1, UArg(q.unit)).ret
            h1 == ito(heap, i, UArg(v)).heap
            h2 == ito(h1, i, UArg(q.unit)).heap
        IN  /\ RMul(conversion_factor(q.unit, v).val,
                    conversion_factor(v, q.unit).val) = RInt(1)
            /\ there.kind = "Quantity" /\ back.kind = "Quantity"
            /\ back.q.magnitude = q.magnitude /\ back.q.unit = q.unit
            /\ h2[i].magnitude = q.magnitude /\ h2[i].unit = q.unit

C9_Witness ==
    /\ last.op = "ito" /\ ret.kind = "None"
    /\ Self.magnitude \notin {q.magnitude : q \in QInit}

\* C10: units mirrors unit and dimensionality mirrors unit.unit_type, for
\* every Quantity and after every call.
InSync(q) == q.units = q.unit /\ q.dimensionality = unit_type(q.unit)

C10_MirrorsInSync ==
    /\ \A i \in DOMAIN heap : InSync(heap[i])
    /\ ret.kind = "Quantity" => InSync(ret.q)

C10_Witness ==
    /\ last.op = "ito" /\ ret.kind = "None"
    /\ Self.unit \notin {q.unit : q \in QInit}

====
